---- MODULE Spec2Model ----
(***************************************************************************)
(* ECVRF over Ristretto/ed25519 with SHA-512 (src/src/main.rs).            *)
(*                                                                         *)
(* The program is a library of pure functions (proof codec, prove, verify) *)
(* driven by a caller.  The functions are operators; the caller and the    *)
(* attacker on the wire are the actions.                                   *)
(*                                                                         *)
(* Scale.  The arithmetic of the real suite lives in 2^255; the model      *)
(* keeps the byte (8 bits) and every byte-level operation of the code, and *)
(* shrinks the lengths by a factor of 8:                                   *)
(*     scalar / point encoding   32 bytes -> 4 bytes                       *)
(*     challenge (hash128)       16 bytes -> 2 bytes                       *)
(*     proof encoding            80 bytes -> 10 bytes (80 bits)            *)
(*     SHA-512 digest            64 bytes -> 8 bytes                       *)
(*     group order l             2^252 + 27742...493 -> 2^28 + 3 (prime)   *)
(* so that, as in the real suite, 2^(challenge bits) < l < 2^(scalar       *)
(* bits - 1) = 8 l (approximately), a clamped secret scalar is unreduced,  *)
(* and from_bits drops exactly the top bit of the last byte.               *)
(*                                                                         *)
(* The external crates (curve25519_dalek, ed25519_dalek, sha2) are         *)
(* modelled by what the code relies on: a cyclic group of prime order l    *)
(* (a point is its discrete logarithm to the base point B), canonical      *)
(* injective point encodings that not every byte string satisfies, and a   *)
(* deterministic hash that mixes every input byte.                         *)
(***************************************************************************)
EXTENDS Integers, Sequences, FiniteSets, TLC

(***************************************************************************)
(* Program constants (scaled as described above).                          *)
(***************************************************************************)
SUITE == 5
SCALAR_LEN == 4
HASH128_LEN == 2
POINT_LEN == 4
PROOF_LEN == 10
DIGEST_LEN == 8
BASEPOINT_ORDER == 268435459

(***************************************************************************)
(* Bounds of the explored inputs.                                          *)
(***************************************************************************)
NumSecrets == 3
MaxAlphaLen == 1
MaxDraws == 1

(***************************************************************************)
(* State.                                                                  *)
(***************************************************************************)
VARIABLES
    secret_key,     \* the secret key of the caller
    message_bytes,      \* the caller's message
    pc,         \* where the caller of the codec and of verify stands
    the_proof,      \* the ECVRF_Proof the caller holds
    origin,     \* "prove": returned by ECVRF_prove; "built": fields set by hand
    encoded,    \* the Result of to_bytes on the_proof
    wire,       \* the bytes handed to from_slice
    tamper,     \* what happened to the bytes between to_bytes and from_slice
    decoded,    \* the Result of from_slice on wire
    reenc,      \* the Result of to_bytes on the decoded proof
    vfrom,      \* "struct": verify ran on the_proof; "wire": on the decoded proof
    vkey,       \* the public key given to verify
    valpha,     \* the message given to verify
    vout,       \* the outcome of verify
    frame,      \* per thread: the memory of its call of ECVRF_prove
    osrng       \* draws made from the OS random number generator

callerVars == <<pc, the_proof, origin, encoded, wire, tamper, decoded, reenc,
                vfrom, vkey, valpha, vout>>
threadVars == <<frame, osrng>>
vars == <<secret_key, message_bytes, callerVars, threadVars>>

(***************************************************************************)
(* Bytes.                                                                  *)
(***************************************************************************)
Byte == 0..255

Bit(a, k) == (a \div k) % 2

(* a & b and a | b on bytes *)
BitAnd(a, b) ==
    ( (Bit(a, 1) * Bit(b, 1) + 2 * Bit(a, 2) * Bit(b, 2))
      + (4 * Bit(a, 4) * Bit(b, 4) + 8 * Bit(a, 8) * Bit(b, 8)) )
    + ( (16 * Bit(a, 16) * Bit(b, 16) + 32 * Bit(a, 32) * Bit(b, 32))
      + (64 * Bit(a, 64) * Bit(b, 64) + 128 * Bit(a, 128) * Bit(b, 128)) )

BitOr(a, b) == a + b - BitAnd(a, b)

Zeros(n) == [i \in 1..n |-> 0]

(* bytes[from..to] of the code: the bytes at (0-based) from, ..., to - 1 *)
Slice(bytes, from, to) == SubSeq(bytes, from + 1, to)

(* little-endian value of 4 bytes whose top bit is clear, and back *)
LEValue(bytes) ==
    (bytes[1] + 256 * bytes[2]) + (65536 * bytes[3] + 16777216 * bytes[4])

LEBytes(v) ==
    <<v % 256, (v \div 256) % 256, (v \div 65536) % 256, (v \div 16777216) % 256>>

(***************************************************************************)
(* sha2::Sha512, scaled to an 8-byte digest.  The message is cut into      *)
(* 6-byte blocks (the last one zero-filled, the length enters the initial  *)
(* state); each block is absorbed into two lanes through a quadratic       *)
(* round; the digest is read off the last two states.                      *)
(***************************************************************************)
Sha512Round(st, v, w) ==
    << ( ((st[1] + v + 3 * w) % 46337) * ((st[1] + v + 3 * w) % 46337)
         + 3 * ((st[2] + 7 * v + w) % 46327) + 11 ) % 46337,
       ( ((st[2] + 7 * v + w) % 46327) * ((st[2] + 7 * v + w) % 46327)
         + 5 * ((st[1] + v + 3 * w) % 46337) + 17 ) % 46327 >>

ByteAt(msg, i) == IF i <= Len(msg) THEN msg[i] ELSE 0

(* the value of the 3 bytes of msg after the first 3 * n *)
Sha512Word(msg, n) ==
    ByteAt(msg, 3 * n + 1) + 256 * ByteAt(msg, 3 * n + 2) + 65536 * ByteAt(msg, 3 * n + 3)

RECURSIVE Sha512Absorb(_, _)
Sha512Absorb(msg, n) ==
    IF n = 0 THEN <<Len(msg) + 1, 2 * Len(msg) + 1>>
    ELSE Sha512Round(Sha512Absorb(msg, n - 1),
                     Sha512Word(msg, 2 * n - 2), Sha512Word(msg, 2 * n - 1))

Sha512Squeeze(st1, st2, st3) ==
    << st1[1] % 256, st2[1] % 256, st1[2] % 256, st2[2] % 256,
       st3[1] % 256, (st1[1] \div 256 + st3[2]) % 256,
       (st2[1] \div 256 + st3[1] \div 256) % 256, (st2[2] \div 256 + st1[2] \div 256) % 256 >>

Sha512Final(st) ==
    Sha512Squeeze(Sha512Round(st, 1, 2),
                  Sha512Round(<<st[2], st[1]>>, 3, 4),
                  Sha512Round(<<st[1] + st[2], st[2] + 1>>, 5, 6))

Sha512(msg) == Sha512Final(Sha512Absorb(msg, (Len(msg) + 5) \div 6))

(***************************************************************************)
(* curve25519_dalek::scalar::Scalar.  A Scalar holds SCALAR_LEN bytes; the *)
(* model holds their little-endian value, which from_bits keeps below      *)
(* 2^(8*SCALAR_LEN - 1).                                                   *)
(***************************************************************************)
Scalar_from_bits(bytes) == LEValue([bytes EXCEPT ![SCALAR_LEN] = BitAnd(@, 127)])

Scalar_to_bytes(a) == LEBytes(a)

Scalar_reduce(a) == a % BASEPOINT_ORDER

(* a * b mod l for a, b < l, on 14-bit limbs without leaving 31 bits:     *)
(* 2^28 = l - 3, so a limb product of weight 2^28 counts -3 times          *)
MulMod(a, b) ==
    LET hi == (a \div 16384) * (b \div 16384)
        mid == (a \div 16384) * (b % 16384) + (a % 16384) * (b \div 16384)
        lo == (a % 16384) * (b % 16384)
    IN  ( (lo + 16384 * (mid % 16384))
          + (4 * BASEPOINT_ORDER - 3 * (hi % BASEPOINT_ORDER) - 3 * (mid \div 16384))
        ) % BASEPOINT_ORDER

(* Mul for &Scalar * &Scalar: Montgomery multiplication, result reduced *)
Scalar_mul(a, b) == MulMod(a % BASEPOINT_ORDER, b % BASEPOINT_ORDER)

(* Add for &Scalar + &Scalar (the code adds two reduced scalars) *)
Scalar_add(a, b) == ((a % BASEPOINT_ORDER) + (b % BASEPOINT_ORDER)) % BASEPOINT_ORDER

(***************************************************************************)
(* Group elements.  A point of the prime-order group is d*B, held as d.    *)
(***************************************************************************)
RISTRETTO_BASEPOINT_POINT == 1

Point_mul(a, P) == MulMod(P, a % BASEPOINT_ORDER)

Point_sub(P, Q) == (P + BASEPOINT_ORDER - Q) % BASEPOINT_ORDER

Point_add(P, Q) == (P + Q) % BASEPOINT_ORDER

(* RistrettoPoint::compress: canonical, injective, the identity encodes as  *)
(* zeros, every encoding is a non-negative (even) field element.           *)
RistrettoPoint_compress(P) == LEBytes(2 * ((3 * P) % BASEPOINT_ORDER))

(* CompressedRistretto::decompress: None for a non-canonical string *)
CompressedRistretto_decompress(bytes) ==
    IF bytes[POINT_LEN] >= 128 THEN [some |-> FALSE, point |-> 0]
    ELSE LET v == LEValue(bytes)
         IN  IF v % 2 = 1 \/ v \div 2 >= BASEPOINT_ORDER
             THEN [some |-> FALSE, point |-> 0]
             ELSE [some |-> TRUE, point |-> MulMod(v \div 2, 178956973)]

(* the Elligator map of one field element: r and -r give the same point *)
Elligator(bytes) ==
    LET r == Scalar_from_bits(bytes) % BASEPOINT_ORDER
    IN  (MulMod(r, r) + 7) % BASEPOINT_ORDER

(* RistrettoPoint::from_uniform_bytes: the sum of the images of both halves *)
RistrettoPoint_from_uniform_bytes(bytes) ==
    Point_add(Elligator(Slice(bytes, 0, POINT_LEN)),
              Elligator(Slice(bytes, POINT_LEN, 2 * POINT_LEN)))

(* EdwardsPoint::compress: the y coordinate, the sign of x in the top bit;  *)
(* P and -P share y.                                                       *)
EdwardsPoint_compress(P) ==
    LET neg == (BASEPOINT_ORDER - P) % BASEPOINT_ORDER
        m == IF P <= neg THEN P ELSE neg
        y == LEBytes(1 + 5 * m)
    IN  [y EXCEPT ![POINT_LEN] = IF P <= neg THEN @ ELSE @ + 128]

(* CompressedEdwardsY::decompress: None when y is not on the curve *)
CompressedEdwardsY_decompress(bytes) ==
    LET sign == bytes[POINT_LEN] \div 128
        y == LEValue([bytes EXCEPT ![POINT_LEN] = @ % 128])
        m == (y - 1) \div 5
    IN  IF y = 0 \/ (y - 1) % 5 # 0 \/ 2 * m >= BASEPOINT_ORDER
        THEN [some |-> FALSE, point |-> 0]
        ELSE [some |-> TRUE,
              point |-> IF sign = 1 THEN (BASEPOINT_ORDER - m) % BASEPOINT_ORDER ELSE m]

(***************************************************************************)
(* Results.  Ok(v) and Err(e) are the two values of a Result; Panic is the *)
(* abort of the process by a failed unwrap().                              *)
(***************************************************************************)
Ok(v) == [kind |-> "Ok", val |-> <<v>>]
Err(e) == [kind |-> "Err", val |-> <<e>>]
Panic == [kind |-> "Panic", val |-> <<>>]
None == [kind |-> "None", val |-> <<>>]
InvalidDataError == "InvalidDataError"

IsOk(r) == r.kind = "Ok"
IsInvalidData(r) == r.kind = "Err" /\ r.val[1] = InvalidDataError
Unwrap(r) == r.val[1]

(***************************************************************************)
(* ECVRF_Proof and its codec.                                              *)
(***************************************************************************)
ECVRF_Proof(Gamma, c, s) == [Gamma |-> Gamma, c |-> c, s |-> s]

(* a decoder that copies one byte too few of c *)
ECVRF_Proof_from_slice_short_c(bytes) ==
    IF Len(bytes) = PROOF_LEN
    THEN LET gamma_opt == CompressedRistretto_decompress(Slice(bytes, 0, POINT_LEN))
             c_buf == Slice(bytes, POINT_LEN, POINT_LEN + HASH128_LEN - 1)
                          \o Zeros(SCALAR_LEN - HASH128_LEN + 1)
             s_buf == Slice(bytes, POINT_LEN + HASH128_LEN, PROOF_LEN)
         IN  IF ~gamma_opt.some
             THEN Err(InvalidDataError)
             ELSE Ok(ECVRF_Proof(gamma_opt.point,
                                 Scalar_from_bits(c_buf),
                                 Scalar_from_bits(s_buf)))
    ELSE Err(InvalidDataError)

(* a decoder that accepts canonical scalars s only *)
ECVRF_Proof_from_slice_canonical(bytes) ==
    IF Len(bytes) = PROOF_LEN
    THEN LET gamma_opt == CompressedRistretto_decompress(Slice(bytes, 0, POINT_LEN))
             c_buf == Slice(bytes, POINT_LEN, POINT_LEN + HASH128_LEN)
                          \o Zeros(SCALAR_LEN - HASH128_LEN)
             s_buf == Slice(bytes, POINT_LEN + HASH128_LEN, PROOF_LEN)
         IN  IF ~gamma_opt.some \/ Scalar_from_bits(s_buf) >= BASEPOINT_ORDER
             THEN Err(InvalidDataError)
             ELSE Ok(ECVRF_Proof(gamma_opt.point,
                                 Scalar_from_bits(c_buf),
                                 Scalar_from_bits(s_buf)))
    ELSE Err(InvalidDataError)

ECVRF_Proof_from_slice(bytes) ==
    IF Len(bytes) = PROOF_LEN
    THEN LET gamma_opt == CompressedRistretto_decompress(Slice(bytes, 0, POINT_LEN))
             c_buf == Slice(bytes, POINT_LEN, POINT_LEN + HASH128_LEN)
                          \o Zeros(SCALAR_LEN - HASH128_LEN)
             s_buf == Slice(bytes, POINT_LEN + HASH128_LEN, PROOF_LEN)
         IN  IF ~gamma_opt.some
             THEN Err(InvalidDataError)
             ELSE Ok(ECVRF_Proof(gamma_opt.point,
                                 Scalar_from_bits(c_buf),
                                 Scalar_from_bits(s_buf)))
    ELSE Err(InvalidDataError)

(* an encoder that tests the bytes of c as held, without reducing c *)
ECVRF_Proof_to_bytes_unreduced_c(self) ==
    LET c_bytes == Scalar_to_bytes(self.c)
        c_bytes_16 == Slice(c_bytes, 0, HASH128_LEN)
        gamma_bytes == RistrettoPoint_compress(self.Gamma)
        s_bytes == Scalar_to_bytes(self.s)
    IN  IF \E i \in (HASH128_LEN + 1)..SCALAR_LEN : c_bytes[i] # 0
        THEN Err(InvalidDataError)
        ELSE Ok(gamma_bytes \o c_bytes_16 \o s_bytes)

(* an encoder that writes s reduced *)
ECVRF_Proof_to_bytes_reduced_s(self) ==
    LET c_bytes == Scalar_to_bytes(Scalar_reduce(self.c))
        c_bytes_16 == Slice(c_bytes, 0, HASH128_LEN)
        gamma_bytes == RistrettoPoint_compress(self.Gamma)
        s_bytes == Scalar_to_bytes(Scalar_reduce(self.s))
    IN  IF \E i \in (HASH128_LEN + 1)..SCALAR_LEN : c_bytes[i] # 0
        THEN Err(InvalidDataError)
        ELSE Ok(gamma_bytes \o c_bytes_16 \o s_bytes)

ECVRF_Proof_to_bytes(self) ==
    LET c_bytes == Scalar_to_bytes(Scalar_reduce(self.c))
        c_bytes_16 == Slice(c_bytes, 0, HASH128_LEN)
        gamma_bytes == RistrettoPoint_compress(self.Gamma)
        s_bytes == Scalar_to_bytes(self.s)
    IN  IF \E i \in (HASH128_LEN + 1)..SCALAR_LEN : c_bytes[i] # 0
        THEN Err(InvalidDataError)
        ELSE Ok(gamma_bytes \o c_bytes_16 \o s_bytes)

(***************************************************************************)
(* The VRF.                                                                *)
(***************************************************************************)
ECVRF_point_to_string(p) == RistrettoPoint_compress(p)

(* a hash to the curve that leaves the message out *)
ECVRF_hash_to_curve_no_alpha(y, alpha) ==
    LET pk_bytes == y
        result == Sha512(<<SUITE, 1>> \o pk_bytes)
    IN  Ok(RistrettoPoint_from_uniform_bytes(result))

ECVRF_hash_to_curve(y, alpha) ==
    LET pk_bytes == y
        result == Sha512(<<SUITE, 1>> \o pk_bytes \o alpha)
    IN  Ok(RistrettoPoint_from_uniform_bytes(result))

ECVRF_hash_points(p1, p2, p3, p4) ==
    LET sha512_result == Sha512(<<SUITE, 2>> \o ECVRF_point_to_string(p1)
                                             \o ECVRF_point_to_string(p2)
                                             \o ECVRF_point_to_string(p3)
                                             \o ECVRF_point_to_string(p4))
    IN  SubSeq(sha512_result, 1, HASH128_LEN)

(* h[0] &= 248; h[31] &= 127; h[31] |= 64 on the digest h of the secret,   *)
(* in ECVRF_expand_privkey and in the host library's key derivation        *)
Clamp(h) ==
    [h EXCEPT ![1] = BitAnd(@, 248), ![SCALAR_LEN] = BitOr(BitAnd(@, 127), 64)]

(* ed25519_dalek::PublicKey::from_secret::<Sha512>: the compressed Edwards  *)
(* point x*B of the clamped scalar x                                       *)
ed25519_PublicKey_from_secret(secret) ==
    EdwardsPoint_compress(
        Point_mul(Scalar_from_bits(Slice(Clamp(Sha512(secret)), 0, SCALAR_LEN)),
                  RISTRETTO_BASEPOINT_POINT))

ECVRF_expand_privkey(secret) ==
    LET h == Clamp(Sha512(secret))
        h_32 == Slice(h, 0, SCALAR_LEN)
        pubkey == ed25519_PublicKey_from_secret(secret)
        x_scalar == Scalar_from_bits(h_32)
        trunc_hash == Slice(h, SCALAR_LEN, DIGEST_LEN)
    IN  Ok(<<pubkey, x_scalar, trunc_hash, h, h_32>>)

(* a nonce salted with the draws made so far from the OS random number      *)
(* generator, which every thread shares                                    *)
ECVRF_nonce_generation_osrng(trunc_hash, H_point) ==
    LET h_string == RistrettoPoint_compress(H_point)
        k_string == Sha512(trunc_hash \o h_string \o <<osrng>>)
        k_32 == Slice(k_string, 0, SCALAR_LEN)
        k == Scalar_from_bits(k_32)
    IN  Scalar_reduce(k)

ECVRF_nonce_generation(trunc_hash, H_point) ==
    LET h_string == RistrettoPoint_compress(H_point)
        k_string == Sha512(trunc_hash \o h_string)
        k_32 == Slice(k_string, 0, SCALAR_LEN)
        k == Scalar_from_bits(k_32)
    IN  Scalar_reduce(k)

ECVRF_ed25519_scalar_from_hash128(hash128) ==
    LET scalar_buf == hash128 \o Zeros(SCALAR_LEN - HASH128_LEN)
    IN  Scalar_from_bits(scalar_buf)

(***************************************************************************)
(* ECVRF_prove, one statement at a time.  A frame is the memory of the     *)
(* call: its arguments, its locals (<<>> until assigned; the buffers h and *)
(* h_32 are the callee ECVRF_expand_privkey's, whose memory the return     *)
(* leaves as it is), the statement it stands at, the value it returned.    *)
(***************************************************************************)
prove_call(secret_arg, alpha_arg) ==
    [at |-> "expand_privkey", secret |-> secret_arg, alpha |-> alpha_arg,
     h |-> <<>>, h_32 |-> <<>>, Y_point |-> <<>>, x_scalar |-> <<>>, trunc_hash |-> <<>>,
     H_point |-> <<>>, Gamma_point |-> <<>>, k_scalar |-> <<>>,
     kB_point |-> <<>>, kH_point |-> <<>>, c_hashbuf |-> <<>>, c_scalar |-> <<>>,
     s_full_scalar |-> <<>>, s_scalar |-> <<>>, ret |-> None]

(* line 207; the ? returns the callee's error *)
prove_expand_privkey(f) ==
    IF f.at # "expand_privkey" THEN f
    ELSE LET e == ECVRF_expand_privkey(f.secret)
         IN  IF ~IsOk(e) THEN [f EXCEPT !.at = "returned", !.ret = e]
             ELSE [f EXCEPT !.at = "hash_to_curve",
                            !.Y_point = <<Unwrap(e)[1]>>,
                            !.x_scalar = <<Unwrap(e)[2]>>,
                            !.trunc_hash = Unwrap(e)[3],
                            !.h = Unwrap(e)[4],
                            !.h_32 = Unwrap(e)[5]]

(* line 208 *)
prove_hash_to_curve(f) ==
    IF f.at # "hash_to_curve" THEN f
    ELSE LET hr == ECVRF_hash_to_curve(f.Y_point[1], f.alpha)
         IN  IF ~IsOk(hr) THEN [f EXCEPT !.at = "returned", !.ret = hr]
             ELSE [f EXCEPT !.at = "Gamma", !.H_point = <<Unwrap(hr)>>]

(* line 210 *)
prove_Gamma(f) ==
    IF f.at # "Gamma" THEN f
    ELSE [f EXCEPT !.at = "nonce",
                   !.Gamma_point = <<Point_mul(f.x_scalar[1], f.H_point[1])>>]

(* line 211 *)
prove_nonce(f) ==
    IF f.at # "nonce" THEN f
    ELSE [f EXCEPT !.at = "kB_kH",
                   !.k_scalar = <<ECVRF_nonce_generation(f.trunc_hash, f.H_point[1])>>]

(* lines 213-214 *)
prove_kB_kH(f) ==
    IF f.at # "kB_kH" THEN f
    ELSE [f EXCEPT !.at = "challenge",
                   !.kB_point = <<Point_mul(f.k_scalar[1], RISTRETTO_BASEPOINT_POINT)>>,
                   !.kH_point = <<Point_mul(f.k_scalar[1], f.H_point[1])>>]

(* lines 216-217 *)
prove_challenge(f) ==
    IF f.at # "challenge" THEN f
    ELSE LET c_hashbuf == ECVRF_hash_points(f.H_point[1], f.Gamma_point[1],
                                           f.kB_point[1], f.kH_point[1])
         IN  [f EXCEPT !.at = "response",
                       !.c_hashbuf = c_hashbuf,
                       !.c_scalar = <<ECVRF_ed25519_scalar_from_hash128(c_hashbuf)>>]

(* a response that leaves the nonce out: s = c*x *)
prove_response_no_nonce(f) ==
    IF f.at # "response" THEN f
    ELSE LET s_full_scalar == Scalar_mul(f.c_scalar[1], f.x_scalar[1])
         IN  [f EXCEPT !.at = "return",
                       !.s_full_scalar = <<s_full_scalar>>,
                       !.s_scalar = <<Scalar_reduce(s_full_scalar)>>]

(* lines 219-220 *)
prove_response(f) ==
    IF f.at # "response" THEN f
    ELSE LET s_full_scalar == Scalar_add(Scalar_mul(f.c_scalar[1], f.x_scalar[1]),
                                        f.k_scalar[1])
         IN  [f EXCEPT !.at = "return",
                       !.s_full_scalar = <<s_full_scalar>>,
                       !.s_scalar = <<Scalar_reduce(s_full_scalar)>>]

(* lines 222-226: the proof is returned; no local is written *)
prove_return(f) ==
    IF f.at # "return" THEN f
    ELSE [f EXCEPT !.at = "returned",
                   !.ret = Ok(ECVRF_Proof(f.Gamma_point[1], f.c_scalar[1], f.s_scalar[1]))]

ECVRF_prove(secret_arg, alpha_arg) ==
    prove_return(prove_response(prove_challenge(prove_kB_kH(prove_nonce(
        prove_Gamma(prove_hash_to_curve(prove_expand_privkey(
            prove_call(secret_arg, alpha_arg))))))))).ret

(* decompress().unwrap() then transmute::<EdwardsPoint, RistrettoPoint>:    *)
(* the same group element, or the abort of unwrap() on None                *)
ECVRF_ed25519_PublicKey_to_RistrettoPoint(public_key) ==
    LET public_key_ed == CompressedEdwardsY_decompress(public_key)
    IN  IF public_key_ed.some THEN Ok(public_key_ed.point) ELSE Panic

ECVRF_verify(Y_point, proof, alpha) ==
    LET hr == ECVRF_hash_to_curve(Y_point, alpha)
    IN  IF ~IsOk(hr) THEN hr
        ELSE
        LET H_point == Unwrap(hr)
            s_reduced == Scalar_reduce(proof.s)
            Y_ristretto_point == ECVRF_ed25519_PublicKey_to_RistrettoPoint(Y_point)
        IN  IF ~IsOk(Y_ristretto_point) THEN Panic
            ELSE
            LET U_point == Point_sub(Point_mul(s_reduced, RISTRETTO_BASEPOINT_POINT),
                                     Point_mul(proof.c, Unwrap(Y_ristretto_point)))
                V_point == Point_sub(Point_mul(s_reduced, H_point),
                                     Point_mul(proof.c, proof.Gamma))
                c_prime_hashbuf == ECVRF_hash_points(H_point, proof.Gamma, U_point, V_point)
                c_prime == ECVRF_ed25519_scalar_from_hash128(c_prime_hashbuf)
            IN  Ok(c_prime = proof.c)


(***************************************************************************)
(* Inputs.                                                                 *)
(***************************************************************************)
(* secret 0 is all zeros, secret 1 begins 9d 61 b1 9d                      *)
SecretOf(i) == <<(157 * i) % 256, (97 * i) % 256, (177 * i) % 256, (157 * i) % 256>>

Secrets == {SecretOf(i) : i \in 0..(NumSecrets - 1)}

(* messages over the last letters of "hello" and "hellp" *)
AlphaBytes == {111, 112}

Alphas == UNION {[1..n -> AlphaBytes] : n \in 0..MaxAlphaLen}

PublicKeys == {ed25519_PublicKey_from_secret(sk) : sk \in Secrets}

(* scalars a caller can put into the public field c of an ECVRF_Proof:     *)
(* around 2^(8*HASH128_LEN), around the group order, and the largest       *)
ChallengeScalars ==
    {0, 65535, 65536, BASEPOINT_ORDER - 1, BASEPOINT_ORDER, BASEPOINT_ORDER + 1,
     BASEPOINT_ORDER + 65535, BASEPOINT_ORDER + 65536, 2147483647}

FlipBit(bytes, i) ==
    LET m == <<1, 2, 4, 8, 16, 32, 64, 128>>[(i % 8) + 1]
    IN  [bytes EXCEPT ![(i \div 8) + 1] = IF BitAnd(@, m) = 0 THEN @ + m ELSE @ - m]

Threads == {1, 2}

NoProof == ECVRF_Proof(0, 0, 0)
NoTamper == [kind |-> "none", bit |-> 0]

InitCaller ==
    /\ pc = "start"
    /\ the_proof = NoProof
    /\ origin = "none"
    /\ encoded = None
    /\ wire = <<>>
    /\ tamper = NoTamper
    /\ decoded = None
    /\ reenc = None
    /\ vfrom = "none"
    /\ vkey = <<>>
    /\ valpha = <<>>
    /\ vout = None

InitThreads ==
    /\ frame = [t \in Threads |-> prove_call(secret_key, message_bytes)]
    /\ osrng = 0

Init ==
    /\ secret_key \in Secrets
    /\ message_bytes \in Alphas
    /\ InitCaller
    /\ InitThreads

(***************************************************************************)
(* The caller: prove, build, encode, decode, verify (main, lines 293-347,  *)
(* and any user of the pub functions and pub fields).                      *)
(***************************************************************************)
Prove ==
    /\ pc = "start"
    /\ LET r == ECVRF_prove(secret_key, message_bytes)
       IN  /\ IsOk(r)
           /\ the_proof' = Unwrap(r)
    /\ origin' = "prove"
    /\ pc' = "proved"
    /\ UNCHANGED <<secret_key, message_bytes, encoded, wire, tamper, decoded, reenc,
                   vfrom, vkey, valpha, vout, threadVars>>

(* the fields of ECVRF_Proof are pub: a caller may hold any scalars *)
Build ==
    /\ pc = "proved"
    /\ origin = "prove"
    /\ \E c \in ChallengeScalars, s \in {the_proof.s, the_proof.s + BASEPOINT_ORDER} :
          the_proof' = ECVRF_Proof(the_proof.Gamma, c, s)
    /\ origin' = "built"
    /\ UNCHANGED <<secret_key, message_bytes, pc, encoded, wire, tamper, decoded, reenc,
                   vfrom, vkey, valpha, vout, threadVars>>

ToBytes ==
    /\ pc = "proved"
    /\ encoded' = ECVRF_Proof_to_bytes(the_proof)
    /\ wire' = IF IsOk(encoded') THEN Unwrap(encoded') ELSE <<>>
    /\ pc' = IF IsOk(encoded') THEN "encoded" ELSE "encode_failed"
    /\ UNCHANGED <<secret_key, message_bytes, the_proof, origin, tamper, decoded, reenc,
                   vfrom, vkey, valpha, vout, threadVars>>

(* the bytes travel: one bit flips, the last byte is lost, a byte is added *)
Flip ==
    /\ pc = "encoded"
    /\ origin = "prove"
    /\ tamper.kind = "none"
    /\ \E i \in 0..(8 * PROOF_LEN - 1) :
          /\ wire' = FlipBit(wire, i)
          /\ tamper' = [kind |-> "flip", bit |-> i]
    /\ UNCHANGED <<secret_key, message_bytes, pc, the_proof, origin, encoded, decoded, reenc,
                   vfrom, vkey, valpha, vout, threadVars>>

Truncate ==
    /\ pc = "encoded"
    /\ origin = "prove"
    /\ tamper.kind = "none"
    /\ wire' = SubSeq(wire, 1, Len(wire) - 1)
    /\ tamper' = [kind |-> "truncate", bit |-> 0]
    /\ UNCHANGED <<secret_key, message_bytes, pc, the_proof, origin, encoded, decoded, reenc,
                   vfrom, vkey, valpha, vout, threadVars>>

Extend ==
    /\ pc = "encoded"
    /\ origin = "prove"
    /\ tamper.kind = "none"
    /\ wire' = wire \o <<0>>
    /\ tamper' = [kind |-> "extend", bit |-> 0]
    /\ UNCHANGED <<secret_key, message_bytes, pc, the_proof, origin, encoded, decoded, reenc,
                   vfrom, vkey, valpha, vout, threadVars>>

FromSlice ==
    /\ pc = "encoded"
    /\ decoded' = ECVRF_Proof_from_slice(wire)
    /\ pc' = IF IsOk(decoded') THEN "decoded" ELSE "decode_failed"
    /\ UNCHANGED <<secret_key, message_bytes, the_proof, origin, encoded, wire, tamper, reenc,
                   vfrom, vkey, valpha, vout, threadVars>>

ReEncode ==
    /\ pc = "decoded"
    /\ reenc' = ECVRF_Proof_to_bytes(Unwrap(decoded))
    /\ pc' = "reencoded"
    /\ UNCHANGED <<secret_key, message_bytes, the_proof, origin, encoded, wire, tamper, decoded,
                   vfrom, vkey, valpha, vout, threadVars>>

(* verify on the proof as ECVRF_prove returned it *)
VerifyStruct ==
    /\ pc = "proved"
    /\ origin = "prove"
    /\ \E pk \in PublicKeys, a \in Alphas :
          /\ vkey' = pk
          /\ valpha' = a
          /\ vout' = ECVRF_verify(pk, the_proof, a)
    /\ vfrom' = "struct"
    /\ pc' = "verified"
    /\ UNCHANGED <<secret_key, message_bytes, the_proof, origin, encoded, wire, tamper, decoded, reenc,
                   threadVars>>

(* verify on a decoded proof, under the public key of any secret *)
VerifyWire ==
    /\ pc = "decoded"
    /\ \E pk \in PublicKeys, a \in Alphas :
          /\ vkey' = pk
          /\ valpha' = a
          /\ vout' = ECVRF_verify(pk, Unwrap(decoded), a)
    /\ vfrom' = "wire"
    /\ pc' = "verified"
    /\ UNCHANGED <<secret_key, message_bytes, the_proof, origin, encoded, wire, tamper, decoded, reenc,
                   threadVars>>

(* verify under 32 arbitrary key bytes (ed25519_PublicKey::from_bytes only  *)
(* checks the length, line 344): the signer's key with one bit flipped     *)
VerifyKeyBytes ==
    /\ pc = "decoded"
    /\ origin = "prove"
    /\ tamper.kind = "none"
    /\ \E i \in 0..(8 * POINT_LEN - 1), a \in Alphas :
          /\ vkey' = FlipBit(ed25519_PublicKey_from_secret(secret_key), i)
          /\ valpha' = a
          /\ vout' = ECVRF_verify(vkey', Unwrap(decoded), a)
    /\ vfrom' = "wire"
    /\ pc' = "verified"
    /\ UNCHANGED <<secret_key, message_bytes, the_proof, origin, encoded, wire, tamper, decoded, reenc,
                   threadVars>>

Next ==
    \/ Prove
    \/ Build
    \/ ToBytes
    \/ Flip
    \/ Truncate
    \/ Extend
    \/ FromSlice
    \/ ReEncode
    \/ VerifyStruct
    \/ VerifyWire
    \/ VerifyKeyBytes

Spec == Init /\ [][Next]_vars

(***************************************************************************)
(* Two threads call ECVRF_prove on the same secret_key and message, one        *)
(* statement at a time, while the "secret_key" command (lines 264-271) draws   *)
(* key material from the OS random number generator.                       *)
(***************************************************************************)
T_expand_privkey(t) ==
    /\ frame[t].at = "expand_privkey"
    /\ frame' = [frame EXCEPT ![t] = prove_expand_privkey(@)]
    /\ UNCHANGED <<secret_key, message_bytes, callerVars, osrng>>

T_hash_to_curve(t) ==
    /\ frame[t].at = "hash_to_curve"
    /\ frame' = [frame EXCEPT ![t] = prove_hash_to_curve(@)]
    /\ UNCHANGED <<secret_key, message_bytes, callerVars, osrng>>

T_Gamma(t) ==
    /\ frame[t].at = "Gamma"
    /\ frame' = [frame EXCEPT ![t] = prove_Gamma(@)]
    /\ UNCHANGED <<secret_key, message_bytes, callerVars, osrng>>

T_nonce(t) ==
    /\ frame[t].at = "nonce"
    /\ frame' = [frame EXCEPT ![t] = prove_nonce(@)]
    /\ UNCHANGED <<secret_key, message_bytes, callerVars, osrng>>

T_kB_kH(t) ==
    /\ frame[t].at = "kB_kH"
    /\ frame' = [frame EXCEPT ![t] = prove_kB_kH(@)]
    /\ UNCHANGED <<secret_key, message_bytes, callerVars, osrng>>

T_challenge(t) ==
    /\ frame[t].at = "challenge"
    /\ frame' = [frame EXCEPT ![t] = prove_challenge(@)]
    /\ UNCHANGED <<secret_key, message_bytes, callerVars, osrng>>

T_response(t) ==
    /\ frame[t].at = "response"
    /\ frame' = [frame EXCEPT ![t] = prove_response(@)]
    /\ UNCHANGED <<secret_key, message_bytes, callerVars, osrng>>

T_return(t) ==
    /\ frame[t].at = "return"
    /\ frame' = [frame EXCEPT ![t] = prove_return(@)]
    /\ UNCHANGED <<secret_key, message_bytes, callerVars, osrng>>

GenerateSecret ==
    /\ osrng < MaxDraws
    /\ osrng' = osrng + 1
    /\ UNCHANGED <<secret_key, message_bytes, callerVars, frame>>

NextThreads ==
    \/ \E t \in Threads : T_expand_privkey(t)
    \/ \E t \in Threads : T_hash_to_curve(t)
    \/ \E t \in Threads : T_Gamma(t)
    \/ \E t \in Threads : T_nonce(t)
    \/ \E t \in Threads : T_kB_kH(t)
    \/ \E t \in Threads : T_challenge(t)
    \/ \E t \in Threads : T_response(t)
    \/ \E t \in Threads : T_return(t)
    \/ GenerateSecret

SpecThreads == Init /\ [][NextThreads]_vars

(***************************************************************************)
(* Properties.                                                             *)
(***************************************************************************)
HonestKey == ed25519_PublicKey_from_secret(secret_key)

Honest == origin = "prove" /\ tamper.kind = "none"

Accepted(r) == IsOk(r) /\ Unwrap(r) = TRUE

Rejected(r) == IsOk(r) /\ Unwrap(r) = FALSE

(* C1: a proof returned by ECVRF_prove(sk, alpha), handed to ECVRF_verify  *)
(* as returned or after to_bytes and from_slice, with the public key of sk *)
(* and the same alpha, verifies: the result is Ok(true); the verifier's    *)
(* U = s*B - c*Y is the prover's k*B and its V = s*H - c*Gamma is k*H.     *)
C1_Completeness ==
    /\ (pc = "verified" /\ Honest /\ vkey = HonestKey /\ valpha = message_bytes)
          => Accepted(vout)
    /\ (pc = "proved" /\ origin = "prove")
          => LET f == prove_kB_kH(prove_nonce(prove_Gamma(prove_hash_to_curve(
                          prove_expand_privkey(prove_call(secret_key, message_bytes))))))
                 Y == Unwrap(ECVRF_ed25519_PublicKey_to_RistrettoPoint(HonestKey))
                 s_reduced == Scalar_reduce(the_proof.s)
             IN  /\ Point_sub(Point_mul(s_reduced, RISTRETTO_BASEPOINT_POINT),
                              Point_mul(the_proof.c, Y)) = f.kB_point[1]
                 /\ Point_sub(Point_mul(s_reduced, f.H_point[1]),
                              Point_mul(the_proof.c, the_proof.Gamma)) = f.kH_point[1]

(* an honest proof of the empty message went through the codec and was     *)
(* accepted                                                                *)
C1_Witness ==
    /\ pc = "verified"
    /\ Honest
    /\ vfrom = "wire"
    /\ vkey = HonestKey
    /\ message_bytes = <<>>
    /\ valpha = message_bytes
    /\ Accepted(vout)

(* C3: an honest encoded proof with exactly one bit flipped either fails   *)
(* to decode or, decoded, is not accepted under the signer's key and the   *)
(* message that was signed.                                                *)
C3_TamperRejected ==
    (pc = "verified" /\ origin = "prove" /\ tamper.kind = "flip" /\ vfrom = "wire"
        /\ vkey = HonestKey /\ valpha = message_bytes)
        => ~Accepted(vout)

(* C4: an honest proof for (sk, alpha) is answered Ok(false) under the     *)
(* public key of any other secret and under any other message.             *)
C4_Binding ==
    (pc = "verified" /\ Honest /\ vkey \in PublicKeys
        /\ <<vkey, valpha>> # <<HonestKey, message_bytes>>)
        => Rejected(vout)

(* the signer's key with another message was answered Ok(false) *)
C4_Witness ==
    /\ pc = "verified"
    /\ Honest
    /\ vkey = HonestKey
    /\ valpha # message_bytes
    /\ Rejected(vout)

(* C5: an honest proof has c below 2^(8*HASH128_LEN) and s reduced; it     *)
(* always encodes, to PROOF_LEN bytes; the bytes                           *)
(* always decode; the decoded proof has the Gamma, c and s of the          *)
(* original, and its Gamma compresses to the same bytes.                   *)
C5_RoundTrip ==
    /\ origin = "prove"
          => (the_proof.c < 65536 /\ the_proof.s < BASEPOINT_ORDER)
    /\ (origin = "prove" /\ encoded # None)
          => (IsOk(encoded) /\ Len(Unwrap(encoded)) = PROOF_LEN)
    /\ (Honest /\ decoded # None)
          => /\ IsOk(decoded)
             /\ Unwrap(decoded) = the_proof
             /\ RistrettoPoint_compress(Unwrap(decoded).Gamma)
                    = RistrettoPoint_compress(the_proof.Gamma)

(* an honest proof was encoded and decoded back to itself *)
C5_Witness ==
    /\ pc = "decoded"
    /\ Honest
    /\ IsOk(decoded)
    /\ Unwrap(decoded) = the_proof
    /\ the_proof.c > 255

(* C6: ECVRF_verify answers a public key that does not decompress to a     *)
(* curve point with the error InvalidData, and every public key that does  *)
(* with Ok(true) or Ok(false).                                             *)
C6_InvalidKeyIsError ==
    pc = "verified" =>
        IF CompressedEdwardsY_decompress(vkey).some
        THEN IsOk(vout) /\ Unwrap(vout) \in BOOLEAN
        ELSE IsInvalidData(vout)

(* C7: from_slice fails with InvalidData exactly when the input is not     *)
(* PROOF_LEN bytes long or its first POINT_LEN bytes are not a canonical   *)
(* Ristretto encoding; otherwise it yields Gamma from those bytes, c from  *)
(* the next HASH128_LEN bytes padded with zeros, s from the last           *)
(* SCALAR_LEN bytes, whatever c and s hold.                                *)
C7_FromSlice ==
    decoded # None =>
        IF Len(wire) # PROOF_LEN
               \/ ~CompressedRistretto_decompress(SubSeq(wire, 1, POINT_LEN)).some
        THEN IsInvalidData(decoded)
        ELSE /\ IsOk(decoded)
             /\ Unwrap(decoded).Gamma
                    = CompressedRistretto_decompress(SubSeq(wire, 1, POINT_LEN)).point
             /\ Unwrap(decoded).c
                    = Scalar_from_bits(SubSeq(wire, POINT_LEN + 1, POINT_LEN + HASH128_LEN)
                                           \o Zeros(SCALAR_LEN - HASH128_LEN))
             /\ Unwrap(decoded).s
                    = Scalar_from_bits(SubSeq(wire, POINT_LEN + HASH128_LEN + 1, PROOF_LEN))

(* bytes whose s is not below the group order were decoded *)
C7_Witness ==
    /\ pc = "decoded"
    /\ tamper.kind = "flip"
    /\ IsOk(decoded)
    /\ Unwrap(decoded).s >= BASEPOINT_ORDER

HighBytesNonZero(c_bytes) == \E i \in (HASH128_LEN + 1)..SCALAR_LEN : c_bytes[i] # 0

Encoding(p, c_bytes) ==
    RistrettoPoint_compress(p.Gamma) \o SubSeq(c_bytes, 1, HASH128_LEN)
                                     \o Scalar_to_bytes(p.s)

(* C8 as stated: to_bytes fails with InvalidData exactly when the bytes of *)
(* scalar c above HASH128_LEN are not all zero; otherwise the output is    *)
(* compress(Gamma), the low HASH128_LEN bytes of c, the bytes of s.        *)
C8_ToBytes ==
    encoded # None =>
        IF HighBytesNonZero(Scalar_to_bytes(the_proof.c))
        THEN IsInvalidData(encoded)
        ELSE /\ IsOk(encoded)
             /\ Unwrap(encoded) = Encoding(the_proof, Scalar_to_bytes(the_proof.c))

(* C8 amended: to_bytes fails with InvalidData exactly when the bytes of   *)
(* c reduced modulo the group order are not all zero above HASH128_LEN;    *)
(* otherwise the output is compress(Gamma), the low HASH128_LEN bytes of   *)
(* the reduced c, the bytes of s as held (not reduced).                    *)
C8_ToBytesReduced ==
    encoded # None =>
        IF HighBytesNonZero(Scalar_to_bytes(Scalar_reduce(the_proof.c)))
        THEN IsInvalidData(encoded)
        ELSE /\ IsOk(encoded)
             /\ Unwrap(encoded)
                    = Encoding(the_proof, Scalar_to_bytes(Scalar_reduce(the_proof.c)))

(* a proof whose c has non-zero high bytes, and is not reduced, was        *)
(* encoded                                                                 *)
C8_Witness ==
    /\ origin = "built"
    /\ IsOk(encoded)
    /\ HighBytesNonZero(Scalar_to_bytes(the_proof.c))

TopBit == 8 * PROOF_LEN - 1

(* C10: a decoded proof always encodes again, to the bytes it was decoded  *)
(* from with the top bit of the last byte cleared; bytes that differ from  *)
(* an encoding in that bit only decode to the same proof and get the same  *)
(* answer from verify.                                                     *)
C10_ReEncode ==
    /\ reenc # None
          => /\ IsOk(reenc)
             /\ Unwrap(reenc) = [wire EXCEPT ![PROOF_LEN] = BitAnd(@, 127)]
    /\ (tamper = [kind |-> "flip", bit |-> TopBit] /\ decoded # None)
          => decoded = ECVRF_Proof_from_slice(Unwrap(encoded))
    /\ (tamper = [kind |-> "flip", bit |-> TopBit] /\ pc = "verified")
          => vout = ECVRF_verify(vkey, Unwrap(ECVRF_Proof_from_slice(Unwrap(encoded))),
                                 valpha)

(* bytes with the top bit of the last byte set were decoded and encoded    *)
(* again, to the bytes without it                                          *)
C10_Witness ==
    /\ pc = "reencoded"
    /\ tamper = [kind |-> "flip", bit |-> TopBit]
    /\ wire[PROOF_LEN] >= 128
    /\ IsOk(reenc)
    /\ Unwrap(reenc) = Unwrap(encoded)
    /\ Unwrap(reenc) # wire

(* C2: calls of ECVRF_prove with the same secret and message return the    *)
(* same proof, with the same encoding, however the calls interleave with   *)
(* one another and with draws from the OS random number generator.         *)
C2_Deterministic ==
    \A t1, t2 \in Threads :
        (frame[t1].at = "returned" /\ frame[t2].at = "returned")
            => /\ IsOk(frame[t1].ret)
               /\ frame[t1].ret = frame[t2].ret
               /\ ECVRF_Proof_to_bytes(Unwrap(frame[t1].ret))
                      = ECVRF_Proof_to_bytes(Unwrap(frame[t2].ret))

(* both calls returned, a draw from the generator having been made between *)
C2_Witness ==
    /\ \A t \in Threads : frame[t].at = "returned" /\ IsOk(frame[t].ret)
    /\ osrng > 0

Wiped(cell) == \A i \in DOMAIN cell : cell[i] = 0

(* C9: when ECVRF_prove has returned, the memory that held the secret      *)
(* scalar x, the hash h of the secret and its halves, and the nonce k has  *)
(* been overwritten with zeros.                                            *)
C9_Zeroized ==
    \A t \in Threads :
        frame[t].at = "returned"
            => /\ Wiped(frame[t].x_scalar)
               /\ Wiped(frame[t].h)
               /\ Wiped(frame[t].h_32)
               /\ Wiped(frame[t].trunc_hash)
               /\ Wiped(frame[t].k_scalar)

====
